---------------------------- MODULE Spec2Model ----------------------------
(***************************************************************************)
(* A model of the auto-trade simulator: the indicator functions, the       *)
(* simulate() replay loop, the bounded price/volume buffers fed by the     *)
(* WebSocket hook useFinnhubWS, and the manual-input variant of the        *)
(* component.                                                              *)
(*                                                                         *)
(* Numbers.  The program computes in IEEE doubles.  Here RSI, SMA, VWAP    *)
(* and the net profit are exact rationals <<n, d>> (d >= 0; d = 0 is the   *)
(* result of a division by zero: NaN when n = 0, +-Infinity otherwise),    *)
(* and the EMA series are fixed-point integers in units of 1/SCALE.        *)
(* JavaScript indices are 0-based; At(s, i) reads s[i] of the program.     *)
(***************************************************************************)
EXTENDS Integers, Sequences, FiniteSets, TLC

VARIABLES
    \* ---- component state (useState) ----
    prices, volumes, logs,
    \* ---- locals of a running simulate() ----
    simPc, i, holding, entry, entryIdx, newLogs, reasons,
    \* ---- component inputs and lifetime ----
    apiKey, symbol, alive,
    \* ---- useFinnhubWS: status (useState), wsRef, retryCount (useRef) ----
    status, wsRef, retryCount,
    \* ---- the WebSocket objects, the pending setTimeout callbacks, and
    \*      whether the last effect run registered a cleanup ----
    socks, timers, live,
    \* ---- history: the last event handled, every tick handed to onTrade ----
    ev, arrived,
    \* ---- the auto-simulation interval: milliseconds until setInterval next
    \*      calls simulate (Off when none is set), and the time the driver
    \*      has been due without a pass starting ----
    ivLeft, waited,
    \* ---- the last application of calculate_net_profit and the one before ----
    calc

compVars == <<prices, volumes, logs>>
simVars  == <<simPc, i, holding, entry, entryIdx, newLogs, reasons>>
hookVars == <<apiKey, symbol, alive, status, wsRef, retryCount, socks, timers,
              live, ev, arrived>>
drvVars  == <<ivLeft, waited>>
vars     == <<compVars, simVars, hookVars, drvVars, calc>>

(***************************************************************************)
(* Strategy parameters                                                     *)
(***************************************************************************)
RSI_PERIOD == 14
SMA_SHORT_PERIOD == 5
SMA_LONG_PERIOD == 20
MACD_FAST == 12
MACD_SLOW == 26
MACD_SIGNAL == 9
RSI_BUY_THRESHOLD == 30
VWAP_CONDITION == TRUE
TAKE_PROFIT_PCT == <<7, 10>>
STOP_LOSS_PCT == <<-5, 10>>
CAPITAL_GAIN_TAX_RATE == <<22, 100>>
BROKER_COMMISSION_RATE == <<23, 10000>>
MAX_HOLD_TIME == 90

\* Fixed-point resolution of the EMA series (units per 1.0).
SCALE == 10000

(***************************************************************************)
(* JavaScript values                                                       *)
(***************************************************************************)
Null == <<>>

\* No application of calculate_net_profit yet.
NoCalc == [entry |-> Null, exit |-> Null, out |-> Null,
           prevExit |-> Null, prevOut |-> Null]

At(s, k) == s[k + 1]

Abs(x) == IF x < 0 THEN -x ELSE x

RECURSIVE Gcd(_, _)
Gcd(a, b) == IF b = 0 THEN a ELSE Gcd(b, a % b)

\* n / d as a number of the program: reduced, d >= 0.
Div(n, d) ==
    IF d = 0 THEN <<(IF n > 0 THEN 1 ELSE IF n < 0 THEN -1 ELSE 0), 0>>
    ELSE LET g == Gcd(Abs(n), Abs(d))
             s == IF d < 0 THEN -1 ELSE 1
         IN  <<s * (n \div g), s * (d \div g)>>

Num(n) == <<n, 1>>

IsNaN(x) == x[1] = 0 /\ x[2] = 0

Mul(x, y) ==
    LET a == Div(x[1], y[2])
        b == Div(y[1], x[2])
    IN  IF x[2] = 0 \/ y[2] = 0 THEN Div(x[1] * y[1], 0)
        ELSE <<a[1] * b[1], a[2] * b[2]>>

Add(x, y) ==
    IF x[2] = 0 \/ y[2] = 0
    THEN (IF x[2] = 0 /\ y[2] = 0 /\ x[1] # y[1] THEN <<0, 0>>
          ELSE IF x[2] = 0 THEN x ELSE y)
    ELSE Div(x[1] * y[2] + y[1] * x[2], x[2] * y[2])

Neg(x) == <<-x[1], x[2]>>

Sub(x, y) == Add(x, Neg(y))

Quot(x, y) ==
    IF y[2] = 0 THEN (IF x[2] = 0 THEN <<0, 0>> ELSE IF IsNaN(y) THEN <<0, 0>> ELSE <<0, 1>>)
    ELSE IF y[1] < 0 THEN Mul(x, <<-y[2], -y[1]>>) ELSE Mul(x, <<y[2], y[1]>>)

\* x < y, x > y, x >= y, x <= y of the program: false when either is NaN.
Lt(x, y) ==
    /\ ~IsNaN(x) /\ ~IsNaN(y)
    /\ IF x[2] = 0 /\ y[2] = 0 THEN x[1] < y[1] ELSE x[1] * y[2] < y[1] * x[2]

Gt(x, y) == Lt(y, x)

Ge(x, y) == ~IsNaN(x) /\ ~IsNaN(y) /\ ~Lt(x, y)

Le(x, y) == ~IsNaN(x) /\ ~IsNaN(y) /\ ~Lt(y, x)

\* The truthiness test of `x && ...`: null, 0 and NaN are falsy.
Truthy(x) == x # Null /\ x[1] # 0

RECURSIVE Sum(_)
Sum(s) == IF s = <<>> THEN 0 ELSE s[1] + Sum(Tail(s))

\* arr.slice(-n)
SliceLast(s, n) == IF Len(s) <= n THEN s ELSE SubSeq(s, Len(s) - n + 1, Len(s))

\* arr.slice(0, n)
SliceTo(s, n) == SubSeq(s, 1, IF n < Len(s) THEN n ELSE Len(s))

(***************************************************************************)
(* Indicator functions                                                     *)
(***************************************************************************)
calculate_rsi(data) ==
    IF Len(data) < RSI_PERIOD + 1 THEN Null
    ELSE LET deltas == [k \in 1..Len(data) |-> IF k = 1 THEN 0 ELSE data[k] - data[k - 1]]
             up     == [k \in 1..Len(data) |-> IF deltas[k] > 0 THEN deltas[k] ELSE 0]
             down   == [k \in 1..Len(data) |-> IF deltas[k] < 0 THEN -deltas[k] ELSE 0]
             avgUp   == Div(Sum(SliceLast(up, RSI_PERIOD)), RSI_PERIOD)
             avgDown == Div(Sum(SliceLast(down, RSI_PERIOD)), RSI_PERIOD)
             rs      == Quot(avgUp, avgDown)
         IN  IF avgDown[1] = 0 THEN Num(100)
             ELSE Sub(Num(100), Quot(Num(100), Add(Num(1), rs)))

calculate_sma(data, period) ==
    IF Len(data) < period THEN Null
    ELSE Div(Sum(SliceLast(data, period)), period)

\* ema(arr, n) of calculate_macd, on fixed-point values: k = 2 / (n + 1), so
\* cur * k + acc[i-1] * (1 - k) = (2 * cur + (n - 1) * acc[i-1]) / (n + 1).
RECURSIVE EmaAcc(_, _, _)
EmaAcc(arr, n, len) ==
    IF len = 0 THEN <<>>
    ELSE IF len = 1 THEN <<arr[1]>>
    ELSE LET acc == EmaAcc(arr, n, len - 1)
         IN  Append(acc, (2 * arr[len] + (n - 1) * acc[len - 1]) \div (n + 1))

ema(arr, n) == EmaAcc(arr, n, Len(arr))

calculate_macd_OffByOne(data) ==
    IF Len(data) < MACD_SLOW THEN <<Null, Null>>
    ELSE LET fx     == [k \in 1..Len(data) |-> data[k] * SCALE]
             fast   == ema(fx, MACD_FAST)
             slow   == ema(fx, MACD_SLOW)
             macd   == [k \in 1..Len(data) |-> fast[k] - slow[k]]
             signal == ema(SubSeq(macd, MACD_SLOW - 1, Len(macd)), MACD_SIGNAL)
         IN  <<Div(macd[Len(macd)], SCALE), Div(signal[Len(signal)], SCALE)>>

calculate_macd(data) ==
    IF Len(data) < MACD_SLOW THEN <<Null, Null>>
    ELSE LET fx     == [k \in 1..Len(data) |-> data[k] * SCALE]
             fast   == ema(fx, MACD_FAST)
             slow   == ema(fx, MACD_SLOW)
             macd   == [k \in 1..Len(data) |-> fast[k] - slow[k]]
             signal == ema(SubSeq(macd, MACD_SLOW, Len(macd)), MACD_SIGNAL)
         IN  <<Div(macd[Len(macd)], SCALE), Div(signal[Len(signal)], SCALE)>>

calculate_vwap(p, v) ==
    IF Len(p) < 2 \/ Len(v) # Len(p) THEN Null
    ELSE LET cumPV == Sum([k \in 1..Len(p) |-> p[k] * v[k]])
             cumV  == Sum(v)
         IN  Div(cumPV, cumV)

PostCommission_OneWay(en, ex) ==
    Sub(Quot(Sub(ex, en), en), BROKER_COMMISSION_RATE)

\* let gross = (exit - entry) / entry; gross -= BROKER_COMMISSION_RATE * 2;
PostCommission(en, ex) ==
    Sub(Quot(Sub(ex, en), en), Mul(BROKER_COMMISSION_RATE, Num(2)))

NetProfit_TaxFirst(en, ex) ==
    LET gross0 == Quot(Sub(ex, en), en)
        gross1 == IF Gt(gross0, Num(0))
                  THEN Mul(gross0, Sub(Num(1), CAPITAL_GAIN_TAX_RATE))
                  ELSE gross0
    IN  Mul(Sub(gross1, Mul(BROKER_COMMISSION_RATE, Num(2))), Num(100))

NetProfit_FlatTax(en, ex) ==
    LET gross1 == PostCommission(en, ex)
        gross2 == IF Gt(gross1, Num(0))
                  THEN Sub(gross1, CAPITAL_GAIN_TAX_RATE)
                  ELSE gross1
    IN  Mul(gross2, Num(100))

\* calculate_net_profit on numbers of the program.
\*   if (gross > 0) gross *= 1 - CAPITAL_GAIN_TAX_RATE; return gross * 100;
NetProfit(en, ex) ==
    LET gross1 == PostCommission(en, ex)
        gross2 == IF Gt(gross1, Num(0))
                  THEN Mul(gross1, Sub(Num(1), CAPITAL_GAIN_TAX_RATE))
                  ELSE gross1
    IN  Mul(gross2, Num(100))

\* calculate_net_profit on the whole-number prices of the buffers.
calculate_net_profit(en, ex) == NetProfit(Num(en), Num(ex))

(***************************************************************************)
(* simulate(): one replay pass over the buffer, one loop iteration a step  *)
(***************************************************************************)
\* The reasons pushed in one iteration, in the order of the four ifs.
Signals(p, rsi, vwap, sma5, sma20, macd, signal) ==
       (IF Truthy(rsi) /\ Lt(rsi, Num(RSI_BUY_THRESHOLD)) THEN <<"RSI<30">> ELSE <<>>)
    \o (IF VWAP_CONDITION /\ Truthy(vwap) /\ Gt(Num(p), vwap) THEN <<"VWAP breakout">> ELSE <<>>)
    \o (IF Truthy(sma5) /\ Truthy(sma20) /\ Gt(sma5, sma20) THEN <<"golden cross">> ELSE <<>>)
    \o (IF Truthy(macd) /\ Truthy(signal) /\ Gt(macd, signal) THEN <<"MACD bullish crossover">> ELSE <<>>)

\* The reasons of iteration k over the buffers ps, vs.
ReasonsAt(ps, vs, k) ==
    LET pre == SliceTo(ps, k + 1)
        m   == calculate_macd(pre)
    IN  Signals(At(ps, k),
                calculate_rsi(pre),
                calculate_vwap(pre, SliceTo(vs, k + 1)),
                calculate_sma(pre, SMA_SHORT_PERIOD),
                calculate_sma(pre, SMA_LONG_PERIOD),
                m[1], m[2])

\* Mutants of the entry test: one that forgets the position, one that is
\* content with three reasons.
BuyFires_IgnoreHolding(h, rs) == Len(rs) = 4

BuyFires_ThreeSuffice(h, rs) == ~h /\ Len(rs) >= 3

\* if (!holding && reasons.length === 4)
BuyFires(h, rs) == ~h /\ Len(rs) = 4

\* Mutant of the exit test: the stop-loss is left out.
ExitFires_NoStopLoss(net, k, eIdx) ==
    Ge(net, TAKE_PROFIT_PCT) \/ k - eIdx >= MAX_HOLD_TIME

\* if (net >= TAKE_PROFIT_PCT || net <= STOP_LOSS_PCT || i - entryIdx >= MAX_HOLD_TIME)
ExitFires(net, k, eIdx) ==
    Ge(net, TAKE_PROFIT_PCT) \/ Le(net, STOP_LOSS_PCT) \/ k - eIdx >= MAX_HOLD_TIME

\* const newLogs = []; let holding = false; let entry = 0; let entryIdx = 0;
EnterSimulate_KeepsLog ==
    /\ simPc' = "loop"
    /\ i' = 0
    /\ holding' = FALSE
    /\ entry' = 0
    /\ entryIdx' = 0
    /\ newLogs' = logs
    /\ reasons' = <<>>

EnterSimulate ==
    /\ simPc' = "loop"
    /\ i' = 0
    /\ holding' = FALSE
    /\ entry' = 0
    /\ entryIdx' = 0
    /\ newLogs' = <<>>
    /\ reasons' = <<>>

SimStart ==
    /\ simPc = "idle"
    /\ EnterSimulate
    /\ UNCHANGED <<compVars, hookVars, drvVars, calc>>

\* One iteration of for (let i = 0; i < prices.length; i++) { ... }
SimIter ==
    /\ simPc = "loop"
    /\ i < Len(prices)
    /\ LET p   == At(prices, i)
           rs  == ReasonsAt(prices, volumes, i)
           net == calculate_net_profit(entry, p)
       IN  /\ reasons' = rs
           /\ IF BuyFires(holding, rs)
              THEN /\ holding' = TRUE
                   /\ entry' = p
                   /\ entryIdx' = i
                   /\ newLogs' = Append(newLogs,
                          [time |-> i, type |-> "BUY", price |-> p, reason |-> rs])
              ELSE IF holding /\ ExitFires(net, i, entryIdx)
              THEN /\ holding' = FALSE
                   /\ newLogs' = Append(newLogs,
                          [time |-> i, type |-> "SELL", price |-> p, profit |-> net])
                   /\ UNCHANGED <<entry, entryIdx>>
              ELSE UNCHANGED <<holding, entry, entryIdx, newLogs>>
    /\ i' = i + 1
    /\ UNCHANGED <<simPc, compVars, hookVars, drvVars, calc>>

\* setLogs(newLogs)
SimEnd ==
    /\ simPc = "loop"
    /\ i = Len(prices)
    /\ logs' = newLogs
    /\ simPc' = "idle"
    /\ UNCHANGED <<prices, volumes, i, holding, entry, entryIdx, newLogs, reasons,
                   hookVars, drvVars, calc>>

(***************************************************************************)
(* useFinnhubWS(apiKey, symbol, onTrade)                                   *)
(*                                                                         *)
(* Every handler of the program runs to completion, so each action below   *)
(* is one handler together with the render it causes: a handler that       *)
(* changes React state re-renders the component, and the render re-runs    *)
(* the effect (cleanup, then body) when one of its dependencies            *)
(* [apiKey, symbol, onTrade] differs.  The parameter fresh of an action    *)
(* says whether the caller hands a new onTrade function to the renders of  *)
(* that step: TradeSimWeb passes an inline arrow function (fresh = TRUE),  *)
(* a caller that memoises its callback passes the same one (fresh = FALSE).*)
(*                                                                         *)
(* A WebSocket is a slot of socks: its readyState (FAILING is a socket     *)
(* closed before it was established, whose error event is still to be      *)
(* delivered; CLOSING is one whose close event is still to be delivered),  *)
(* and the variables its handlers close over: mounted, apiKey, symbol.     *)
(* A pending timer carries the same closure, its delay, and whether        *)
(* timeoutRef.current is its id.                                           *)
(***************************************************************************)
MaxSockets == 3
MaxRetry == 6
MaxTicks == 1

Keys == {"", "k1"}
Symbols == {"TQQQ", "TSLA"}

\* The status texts shown to the user.
STATUS_IDLE == "idle"
STATUS_CONNECTING == "connecting"
STATUS_CONNECTED == "connected"
STATUS_ERROR == "error"
STATUS_CLOSED == "closed"

\* A property that a parsed message does not have.
Undefined == -999

Push_Slice100(prev, x) == Append(SliceLast(prev, 100), x)

\* prev => [...prev.slice(-99), x]
Push(prev, x) == Append(SliceLast(prev, 99), x)

FreeSock == [st |-> "NONE", mounted |-> FALSE, key |-> "", sym |-> ""]

\* The refs and state of the hook, as one value the handlers transform.
\* full records that a handler needed more sockets than the model has.
HookState ==
    [status |-> status, wsRef |-> wsRef, retryCount |-> retryCount,
     socks |-> socks, timers |-> timers, live |-> live, full |-> FALSE]

\* setStatus(s); React drops the update once the component is unmounted.
SetStatus(h, s) == IF alive THEN [h EXCEPT !.status = s] ELSE h

FreeSlots(h) == {w \in 1..MaxSockets : h.socks[w].st = "NONE"}

Min(a, b) == IF a < b THEN a ELSE b

Delay_Uncapped(k) == 1000 * 2^k

\* Math.min(30000, 1000 * 2 ** retryCount.current)
Delay(k) == Min(30000, 1000 * 2^k)

\* ws.close()
Close(s) ==
    IF s.st = "CONNECTING" THEN [s EXCEPT !.st = "FAILING"]
    ELSE IF s.st = "OPEN" THEN [s EXCEPT !.st = "CLOSING"]
    ELSE s

\* const connect = () => { if (!mounted) return; setStatus(...);
\*                         const ws = new WebSocket(...); wsRef.current = ws; ... }
connect(h, m, key, sym) ==
    IF ~m THEN h
    ELSE IF FreeSlots(h) = {} THEN [h EXCEPT !.full = TRUE]
    ELSE LET w == CHOOSE x \in FreeSlots(h) : \A y \in FreeSlots(h) : x <= y
         IN  [SetStatus(h, STATUS_CONNECTING) EXCEPT
                 !.socks[w] = [st |-> "CONNECTING", mounted |-> TRUE,
                               key |-> key, sym |-> sym],
                 !.wsRef = w]

Unmounted(ts) == [k \in 1..Len(ts) |-> [ts[k] EXCEPT !.mounted = FALSE]]

Unref(ts) == [k \in 1..Len(ts) |-> [ts[k] EXCEPT !.ref = FALSE]]

IsNotRef(t) == ~t.ref

ClearTimeout_Forgotten(ts) == ts

\* if (timeoutRef.current) clearTimeout(timeoutRef.current)
ClearTimeout(ts) == SelectSeq(ts, IsNotRef)

\* Once its session is torn down, the handlers of a socket that can no longer
\* open read nothing of their closure but mounted: the rest is dropped.
Forget(s) ==
    IF s.st \in {"CONNECTING", "OPEN"} THEN s
    ELSE [s EXCEPT !.key = "", !.sym = ""]

\* return () => { mounted = false; wsRef.current?.close(); clearTimeout(...) }
cleanup(h) ==
    [h EXCEPT
        !.socks = [w \in 1..MaxSockets |->
                      Forget([(IF w = h.wsRef THEN Close(@[w]) ELSE @[w])
                                 EXCEPT !.mounted = FALSE])],
        !.timers = ClearTimeout(Unmounted(@)),
        !.live = FALSE]

\* useEffect(() => { if (!apiKey) return; let mounted = true; ...; connect();
\*                   return cleanup }, [apiKey, symbol, onTrade])
effect(h, key, sym) ==
    IF key = "" THEN h
    ELSE connect([h EXCEPT !.live = TRUE], TRUE, key, sym)

\* A dependency changed: the previous cleanup, then the effect body.
Rerun(h, key, sym) == effect(IF h.live THEN cleanup(h) ELSE h, key, sym)

\* The renders that follow a handler.  changed: the handler changed React
\* state; deps: apiKey or symbol differ from the previous render.  When the
\* re-run effect itself changes status (connect), a second render follows.
Render(h, changed, deps, fresh, key, sym) ==
    IF ~alive \/ ~changed \/ ~(deps \/ fresh) THEN h
    ELSE LET r1 == Rerun(h, key, sym)
         IN  IF fresh /\ r1.status # h.status THEN Rerun(r1, key, sym) ELSE r1

\* The handler's result becomes the next state; a step that would need more
\* than MaxSockets sockets is left out.
Commit(h) ==
    /\ ~h.full
    /\ status' = h.status
    /\ wsRef' = h.wsRef
    /\ retryCount' = h.retryCount
    /\ socks' = h.socks
    /\ timers' = h.timers
    /\ live' = h.live

(***************************************************************************)
(* Inbound messages: event.data as the handler sees it                     *)
(***************************************************************************)
Msg(kind, p, v) == [kind |-> kind, p |-> p, v |-> v]

NoMsg == Msg("", Undefined, Undefined)

\* The last event handled: its type, the message of a message event, and
\* whether an error escaped the handler.
NoEvent == [type |-> "none", msg |-> NoMsg, threw |-> FALSE]

Event(t) == [type |-> t, msg |-> NoMsg, threw |-> FALSE]

\* Text that is not JSON; the JSON text null; a message of another type;
\* a trade without a data property; a trade whose data is [].
OtherKinds == {"garbage", "null", "ping", "trade_nodata", "trade_empty"}

OtherMessages == {Msg(k, Undefined, Undefined) : k \in OtherKinds}

\* JSON.parse(event.data) throws a SyntaxError; data.type of null and
\* data.data.length of undefined throw a TypeError.
Throws(m) == m.kind \in {"garbage", "null", "trade_nodata"}

\* data.type === "trade" && data.data.length
IsTrade(m) == m.kind = "trade"

\* volume || 1
OrOne(v) == IF v = Undefined \/ v = 0 THEN 1 ELSE v

\* The price of the n-th tick of the feed (n = 0, 1, ...) names the tick.
FeedPrice(n) == 100 + n

FeedVolume(n) == n % 3

\* What the server may send when n ticks have been taken so far.
Messages(n) ==
    OtherMessages \cup
    {Msg("trade", FeedPrice(n), v) : v \in {Undefined, 0, 2, -3}} \cup
    {Msg("trade", Undefined, 2)}

(***************************************************************************)
(* Handlers                                                                *)
(***************************************************************************)
\* ws.onopen: setStatus(connected); retryCount.current = 0; ws.send(subscribe)
onopen(h, w) ==
    [SetStatus(h, STATUS_CONNECTED) EXCEPT !.socks[w].st = "OPEN",
                                           !.retryCount = 0]

\* ws.onerror: setStatus(error); ws.close()
onerror(h, w) == [SetStatus(h, STATUS_ERROR) EXCEPT !.socks[w].st = "CLOSING"]

onclose_NoRetry(h, w) ==
    SetStatus([h EXCEPT !.socks[w] = FreeSock], STATUS_CLOSED)

\* ws.onclose: setStatus(closed); if (!mounted) return;
\*             timeoutRef.current = setTimeout(..., delay)
onclose(h, w) ==
    LET s  == h.socks[w]
        h1 == SetStatus([h EXCEPT !.socks[w] = FreeSock], STATUS_CLOSED)
    IN  IF ~s.mounted THEN h1
        ELSE [h1 EXCEPT !.timers =
                 Append(Unref(@), [mounted |-> TRUE, ref |-> TRUE,
                                   delay |-> Delay(h.retryCount),
                                   key |-> s.key, sym |-> s.sym])]

Remove(ts, t) == [k \in 1..(Len(ts) - 1) |-> IF k < t THEN ts[k] ELSE ts[k + 1]]

\* retryCount.current += 1
Increment(k) == k + 1

\* () => { retryCount.current += 1; connect(); }
ontimeout(h, t) ==
    LET tm == h.timers[t]
    IN  connect([h EXCEPT !.timers = Remove(@, t),
                          !.retryCount = Increment(@)],
                tm.mounted, tm.key, tm.sym)

(***************************************************************************)
(* The auto-simulation effect                                              *)
(***************************************************************************)
\* useState(5)
intervalSec == 5

Off == -1

Max(a, b) == IF a > b THEN a ELSE b

\* Math.max(1000, intervalSec * 1000)
IntervalMs == Max(1000, intervalSec * 1000)

DriverOn_NoMinimum(key, ps) == key # "" /\ intervalSec >= 1

\* if (!apiKey || prices.length < 20 || intervalSec < 1) return;
DriverOn(key, ps) == key # "" /\ Len(ps) >= 20 /\ intervalSec >= 1

\* The effect after a render in which apiKey, prices or simulate changed:
\* clearInterval of the previous interval, then setInterval or nothing.
IntervalEffect(key, ps) == IF DriverOn(key, ps) THEN IntervalMs ELSE Off

Idle_Preempted == TRUE

\* simulate() is synchronous: no other handler runs until it has returned.
Idle == simPc = "idle"

(***************************************************************************)
(* Actions                                                                 *)
(***************************************************************************)
\* The user types or clears the API key.
SetApiKey(k, fresh) ==
    /\ Idle
    /\ alive
    /\ k # apiKey
    /\ apiKey' = k
    /\ Commit(Render(HookState, TRUE, TRUE, fresh, k, symbol))
    /\ ev' = Event("key")
    /\ ivLeft' = IntervalEffect(k, prices)
    /\ waited' = 0
    /\ UNCHANGED <<symbol, alive, arrived, compVars, simVars, calc>>

\* The user changes the instrument.
SetSymbol(s, fresh) ==
    /\ Idle
    /\ alive
    /\ s # symbol
    /\ symbol' = s
    /\ Commit(Render(HookState, TRUE, TRUE, fresh, apiKey, s))
    /\ ev' = Event("symbol")
    /\ UNCHANGED <<apiKey, alive, arrived, compVars, simVars, drvVars, calc>>

\* The component is unmounted: React runs the registered cleanup.
Unmount ==
    /\ Idle
    /\ alive
    /\ alive' = FALSE
    /\ Commit(IF live THEN cleanup(HookState) ELSE HookState)
    /\ ev' = Event("unmount")
    /\ UNCHANGED <<apiKey, symbol, arrived, compVars, simVars, drvVars, calc>>

\* The connection of socket w is established.
NetOpen(w, fresh) ==
    /\ Idle
    /\ socks[w].st = "CONNECTING"
    /\ LET h == onopen(HookState, w)
       IN  Commit(Render(h, h.status # status, FALSE, fresh, apiKey, symbol))
    /\ ev' = Event("open")
    /\ UNCHANGED <<apiKey, symbol, alive, arrived, compVars, simVars, drvVars,
                   calc>>

\* The error event of socket w: the transport failed, or the socket was
\* closed before the connection was established.
NetError(w, fresh) ==
    /\ Idle
    /\ socks[w].st \in {"CONNECTING", "OPEN", "FAILING"}
    /\ LET h == onerror(HookState, w)
       IN  Commit(Render(h, h.status # status, FALSE, fresh, apiKey, symbol))
    /\ ev' = Event("error")
    /\ UNCHANGED <<apiKey, symbol, alive, arrived, compVars, simVars, drvVars,
                   calc>>

\* The close event of socket w: the server closed it, or a close the program
\* or an error started has completed.
NetClose(w, fresh) ==
    /\ Idle
    /\ socks[w].st \in {"OPEN", "CLOSING"}
    /\ LET h == onclose(HookState, w)
       IN  Commit(Render(h, h.status # status, FALSE, fresh, apiKey, symbol))
    /\ ev' = Event("close")
    /\ UNCHANGED <<apiKey, symbol, alive, arrived, compVars, simVars, drvVars,
                   calc>>

\* The pending timer t expires.
TimerFire(t, fresh) ==
    /\ Idle
    /\ t \in 1..Len(timers)
    /\ retryCount < MaxRetry
    /\ LET h == ontimeout(HookState, t)
       IN  Commit(Render(h, h.status # status, FALSE, fresh, apiKey, symbol))
    /\ ev' = Event("timer")
    /\ UNCHANGED <<apiKey, symbol, alive, arrived, compVars, simVars, drvVars,
                   calc>>

\* ws.onmessage of socket w with payload m; at most limit ticks are taken.
\*   const data = JSON.parse(event.data);
\*   if (data.type === "trade" && data.data.length) {
\*     const { p: price, v: volume } = data.data[0]; onTrade(price, volume || 1); }
Message(w, m, fresh, limit) ==
    /\ Idle
    /\ socks[w].st = "OPEN"
    /\ IF Throws(m)
       THEN /\ ev' = [type |-> "message", msg |-> m, threw |-> TRUE]
            /\ UNCHANGED <<status, wsRef, retryCount, socks, timers, live,
                           arrived, compVars, drvVars>>
       ELSE IF ~IsTrade(m)
       THEN /\ ev' = [type |-> "message", msg |-> m, threw |-> FALSE]
            /\ UNCHANGED <<status, wsRef, retryCount, socks, timers, live,
                           arrived, compVars, drvVars>>
       ELSE /\ Len(arrived) < limit
            /\ prices' = Push(prices, m.p)
            /\ volumes' = Push(volumes, OrOne(m.v))
            /\ arrived' = Append(arrived, <<m.p, OrOne(m.v)>>)
            /\ Commit(Render(HookState, TRUE, FALSE, fresh, apiKey, symbol))
            /\ ev' = [type |-> "message", msg |-> m, threw |-> FALSE]
            /\ ivLeft' = IntervalEffect(apiKey, prices')
            /\ waited' = IF DriverOn(apiKey, prices') THEN waited ELSE 0
            /\ UNCHANGED logs
    /\ UNCHANGED <<apiKey, symbol, alive, simVars, calc>>

NetMessage(w, m, fresh) == Message(w, m, fresh, MaxTicks)

(***************************************************************************)
(* Spec: the hook and the buffers it feeds, from the first render on.      *)
(***************************************************************************)
HookIdle ==
    /\ apiKey = ""
    /\ symbol = "TQQQ"
    /\ alive = TRUE
    /\ status = STATUS_IDLE
    /\ wsRef = 0
    /\ retryCount = 0
    /\ socks = [w \in 1..MaxSockets |-> FreeSock]
    /\ timers = <<>>
    /\ live = FALSE
    /\ ev = NoEvent
    /\ ivLeft = Off
    /\ waited = 0
    /\ calc = NoCalc

\* The state after a key was entered and the first socket opened.
HookConnected ==
    /\ apiKey = "k1"
    /\ symbol = "TQQQ"
    /\ alive = TRUE
    /\ status = STATUS_CONNECTED
    /\ wsRef = 1
    /\ retryCount = 0
    /\ socks = [w \in 1..MaxSockets |->
                   IF w = 1 THEN [st |-> "OPEN", mounted |-> TRUE,
                                  key |-> "k1", sym |-> "TQQQ"]
                   ELSE FreeSock]
    /\ timers = <<>>
    /\ live = TRUE
    /\ ev = Event("open")
    /\ waited = 0
    /\ calc = NoCalc

(***************************************************************************)
(* SpecSim: simulate() applied to buffers drawn from a bounded family.     *)
(* A buffer is one of three recorded price histories followed by up to     *)
(* MaxSuffix further ticks, each one of five moves away from the last      *)
(* recorded price; the volumes follow one of NVol patterns.                *)
(***************************************************************************)
MaxSuffix == 3
NVol == 2

\* Flat at 80, a jump, a decline and a late recovery: a BUY is due at index 26.
BaseA ==
    <<80, 80, 80, 80, 80, 80, 80, 80, 80, 80, 80, 80, 106, 105, 105,
      105, 102, 99, 96, 93, 92, 92, 91, 91, 93, 95>>

\* BaseA, its BUY and a stop-loss SELL, then a second jump and decline.
BaseB ==
    BaseA \o <<96, 92, 70, 70, 70, 70, 113, 109, 108, 107, 107, 106, 104,
               105, 106, 106, 107, 107, 106, 106>>

\* A crash, a jump and a decline that ends flat: no price rises in the
\* last 14 steps.
BaseZ ==
    <<150, 20, 20, 20, 20, 20, 20, 20, 100, 99, 98, 97, 96, 95, 95,
      95, 95, 95, 95, 95, 95, 95, 95, 95, 95, 95>>

\* BaseA from its second sample on and the price of its BUY: at index 25
\* every indicator but MACD satisfies its condition.
BaseS == Tail(BaseA) \o <<96>>

Bases == {BaseA, BaseB, BaseZ, BaseS}

Moves == {-3, 0, 1, 2, 4}

RECURSIVE SeqsUpTo(_, _)
SeqsUpTo(S, n) ==
    IF n = 0 THEN {<<>>}
    ELSE LET shorter == SeqsUpTo(S, n - 1)
         IN  shorter \cup {Append(s, x) : s \in shorter, x \in S}

Tapes ==
    {b \o [k \in 1..Len(sfx) |-> b[Len(b)] + sfx[k]] :
        b \in Bases, sfx \in SeqsUpTo(Moves, MaxSuffix)}

VolPattern(n, pat) == [k \in 1..n |-> 1 + ((k - 1) % pat)]

SimIdle ==
    /\ simPc = "idle"
    /\ i = 0
    /\ holding = FALSE
    /\ entry = 0
    /\ entryIdx = 0
    /\ newLogs = <<>>
    /\ reasons = <<>>

InitSim ==
    /\ prices \in Tapes
    /\ \E pat \in 1..NVol : volumes = VolPattern(Len(prices), pat)
    /\ logs = <<>>
    /\ SimIdle
    /\ HookConnected
    /\ arrived = [k \in 1..Len(prices) |-> <<prices[k], volumes[k]>>]
    /\ ivLeft = IntervalEffect(apiKey, prices)

NextSim == SimStart \/ SimIter \/ SimEnd

SpecSim == InitSim /\ [][NextSim]_vars

Init ==
    /\ prices = <<>>
    /\ volumes = <<>>
    /\ logs = <<>>
    /\ arrived = <<>>
    /\ SimIdle
    /\ HookIdle

\* Any pending timer may be the next to expire.
TimerExpiry == \E t \in 1..Len(timers), fresh \in BOOLEAN : TimerFire(t, fresh)

\* Any message the server may send, on any socket.
Inbound ==
    \E w \in 1..MaxSockets, fresh \in BOOLEAN :
        \E m \in Messages(Len(arrived)) : NetMessage(w, m, fresh)

Next ==
    \/ \E k \in Keys, fresh \in BOOLEAN : SetApiKey(k, fresh)
    \/ \E s \in Symbols, fresh \in BOOLEAN : SetSymbol(s, fresh)
    \/ Unmount
    \/ \E w \in 1..MaxSockets, fresh \in BOOLEAN : NetOpen(w, fresh)
    \/ \E w \in 1..MaxSockets, fresh \in BOOLEAN : NetError(w, fresh)
    \/ \E w \in 1..MaxSockets, fresh \in BOOLEAN : NetClose(w, fresh)
    \/ TimerExpiry
    \/ Inbound

Spec == Init /\ [][Next]_vars

(***************************************************************************)
(* SpecLive: Spec with the scheduling the browser provides: an event that  *)
(* is due on a socket (the error of a socket closed before it was          *)
(* established, the close of a closing socket) is delivered, and a pending *)
(* timer expires.                                                          *)
(***************************************************************************)
DeliverError ==
    \E w \in 1..MaxSockets, fresh \in BOOLEAN :
        socks[w].st = "FAILING" /\ NetError(w, fresh)

DeliverClose ==
    \E w \in 1..MaxSockets, fresh \in BOOLEAN :
        socks[w].st = "CLOSING" /\ NetClose(w, fresh)

SpecLive ==
    /\ Init
    /\ [][Next]_vars
    /\ WF_vars(DeliverError)
    /\ WF_vars(DeliverClose)
    /\ WF_vars(TimerExpiry)

(***************************************************************************)
(* Properties of the replay loop (SpecSim)                                 *)
(***************************************************************************)
Last(s) == s[Len(s)]

\* The entries of a log with a time index below k, and those at k.
Before(log, k) == SelectSeq(log, LAMBDA e : e.time < k)

AtIndex(log, k) == SelectSeq(log, LAMBDA e : e.time = k)

TypesAlternate(log) ==
    \A k \in 1..Len(log) : log[k].type = (IF k % 2 = 1 THEN "BUY" ELSE "SELL")

SellAfterBuy(log) ==
    \A k \in 1..Len(log) : k % 2 = 0 => log[k].time > log[k - 1].time

\* C1: in every pass at most one position is open: the log under
\* construction and the published log alternate BUY, SELL, BUY, ... starting
\* with BUY, a position is open exactly when the last entry is a BUY (so no
\* BUY is added while holding), every SELL has a time index strictly above
\* the BUY it closes, and a position open at the end of the buffer stays a
\* trailing BUY.
C1_OnePosition ==
    /\ TypesAlternate(newLogs) /\ SellAfterBuy(newLogs)
    /\ TypesAlternate(logs) /\ SellAfterBuy(logs)
    /\ holding <=> (Len(newLogs) % 2 = 1)
    /\ holding => entryIdx = Last(newLogs).time /\ entryIdx < i
    /\ (simPc = "idle" /\ holding) => (logs # <<>> /\ Last(logs).type = "BUY")

\* A finished pass whose log is BUY, SELL, BUY: the second position is
\* still open at the end of the buffer.
C1_Witness ==
    simPc = "idle" /\ Len(logs) = 3 /\ holding /\ Last(logs).type = "BUY"

\* The four entry conditions at index k, stated on the indicator values of
\* the prefix 0..k: each indicator present and its comparison true.
AllFourHold(ps, vs, k) ==
    LET pre    == SliceTo(ps, k + 1)
        rsi    == calculate_rsi(pre)
        vwap   == calculate_vwap(pre, SliceTo(vs, k + 1))
        sma5   == calculate_sma(pre, 5)
        sma20  == calculate_sma(pre, 20)
        macd   == calculate_macd(pre)[1]
        signal == calculate_macd(pre)[2]
    IN  /\ rsi # Null /\ Lt(rsi, Num(30))
        /\ vwap # Null /\ Gt(Num(At(ps, k)), vwap)
        /\ sma5 # Null /\ sma20 # Null /\ Gt(sma5, sma20)
        /\ macd # Null /\ signal # Null /\ Gt(macd, signal)

\* C2: a BUY is emitted at an index only if the machine was Flat there and
\* all four indicators of the prefix are present and satisfy their
\* conditions at that index; when Flat with fewer than four, nothing is
\* emitted at that index.  (Stated for the index the loop has just
\* processed, i - 1.)
C2_BuyOnlyOnAllFour ==
    i > 0 =>
        LET k    == i - 1
            flat == Len(Before(newLogs, k)) % 2 = 0
            here == AtIndex(newLogs, k)
        IN  /\ (here # <<>> /\ here[1].type = "BUY") =>
                   (flat /\ AllFourHold(prices, volumes, k))
            /\ (flat /\ ~AllFourHold(prices, volumes, k)) => here = <<>>

\* The loop has just emitted a BUY.
C2_Witness ==
    /\ i > 0 /\ newLogs # <<>>
    /\ Last(newLogs).type = "BUY" /\ Last(newLogs).time = i - 1
    /\ Len(reasons) = 4

Labels(rs) == {rs[k] : k \in 1..Len(rs)}

\* C3: each reason label is produced exactly when its indicator is present
\* and its comparison holds, for every numeric value of the indicator, zero
\* included.  (Stated for the reasons of the index just processed.)
C3_LabelsExact ==
    i > 0 =>
        LET k      == i - 1
            pre    == SliceTo(prices, k + 1)
            rsi    == calculate_rsi(pre)
            vwap   == calculate_vwap(pre, SliceTo(volumes, k + 1))
            sma5   == calculate_sma(pre, 5)
            sma20  == calculate_sma(pre, 20)
            macd   == calculate_macd(pre)[1]
            signal == calculate_macd(pre)[2]
        IN  /\ ("RSI<30" \in Labels(reasons)) <=> (rsi # Null /\ Lt(rsi, Num(30)))
            /\ ("VWAP breakout" \in Labels(reasons)) <=>
                   (vwap # Null /\ Gt(Num(At(prices, k)), vwap))
            /\ ("golden cross" \in Labels(reasons)) <=>
                   (sma5 # Null /\ sma20 # Null /\ Gt(sma5, sma20))
            /\ ("MACD bullish crossover" \in Labels(reasons)) <=>
                   (macd # Null /\ signal # Null /\ Gt(macd, signal))

\* C4: while Holding, at a later index a SELL is emitted (and the machine
\* returns to Flat) if and only if the net profit of the price recorded at
\* the BUY index against the price at this index is >= 0.7 or <= -0.5, or
\* 90 or more indices have passed since the BUY; the SELL carries exactly
\* that net profit.  When Flat, no SELL is emitted.  (Stated for the index
\* just processed.)
C4_ExitRule ==
    i > 0 =>
        LET k      == i - 1
            before == Before(newLogs, k)
            held   == Len(before) % 2 = 1
            buyIdx == Last(before).time
            net    == calculate_net_profit(At(prices, buyIdx), At(prices, k))
            here   == AtIndex(newLogs, k)
            sold   == here # <<>> /\ here[1].type = "SELL"
        IN  /\ held =>
                /\ k > buyIdx
                /\ sold <=> (\/ Ge(net, <<7, 10>>)
                             \/ Le(net, <<-1, 2>>)
                             \/ k - buyIdx >= 90)
                /\ sold => (here[1].profit = net /\ here[1].price = At(prices, k)
                            /\ ~holding)
                /\ ~sold => holding
            /\ ~held => ~sold

\* The loop has just emitted a SELL for a position it held over at least
\* one index without selling.
C4_Witness ==
    /\ i > 0 /\ Len(newLogs) >= 2
    /\ Last(newLogs).type = "SELL" /\ Last(newLogs).time = i - 1
    /\ Last(newLogs).time - newLogs[Len(newLogs) - 1].time >= 2

(***************************************************************************)
(* SpecFeed: a connected hook whose caller keeps the same onTrade, taking  *)
(* a long feed.  Tick n of the feed has price FeedPrice(n) and volume      *)
(* FeedVolume(n); between ticks the server may send a ping or garbage.     *)
(***************************************************************************)
MaxFeed == 150

FeedMessages(n) ==
    {Msg("trade", FeedPrice(n), FeedVolume(n)),
     Msg("ping", Undefined, Undefined),
     Msg("garbage", Undefined, Undefined)}

FeedMessage(m) == Message(wsRef, m, FALSE, MaxFeed)

InitFeed ==
    /\ prices = <<>>
    /\ volumes = <<>>
    /\ logs = <<>>
    /\ arrived = <<>>
    /\ SimIdle
    /\ HookConnected
    /\ ivLeft = Off

NextFeed == \E m \in FeedMessages(Len(arrived)) : FeedMessage(m)

SpecFeed == InitFeed /\ [][NextFeed]_vars

(***************************************************************************)
(* SpecDriver: a connected hook (caller keeping the same onTrade) taking   *)
(* the feed from an empty buffer on, the interval of the auto-simulation   *)
(* effect, and time.  Time advances a second at a time and never past an   *)
(* interval that is due; a pass takes no time.                             *)
(***************************************************************************)
MaxDriverTicks == 22
MaxWaitSeconds == 7

Second == 1000

DriverTick ==
    Message(wsRef, Msg("trade", FeedPrice(Len(arrived)), FeedVolume(Len(arrived))),
            FALSE, MaxDriverTicks)

TimePasses ==
    /\ Idle
    /\ ivLeft # 0
    /\ waited < MaxWaitSeconds * Second
    /\ ivLeft' = IF ivLeft = Off THEN Off ELSE ivLeft - Second
    /\ waited' = IF DriverOn(apiKey, prices) THEN waited + Second ELSE 0
    /\ UNCHANGED <<compVars, simVars, hookVars, calc>>

\* The interval calls simulate and stays set.
IntervalFire ==
    /\ Idle
    /\ ivLeft = 0
    /\ EnterSimulate
    /\ ivLeft' = IntervalMs
    /\ waited' = 0
    /\ UNCHANGED <<compVars, hookVars, calc>>

NextDriver == DriverTick \/ TimePasses \/ IntervalFire \/ SimIter \/ SimEnd

SpecDriver == InitFeed /\ [][NextDriver]_vars

(***************************************************************************)
(* SpecIngest: SpecDriver with a feed whose first trades carry any volume  *)
(* the ingestion accepts: none (stored as 1), a positive one, a negative   *)
(* one.  Later trades carry the volumes of the feed of SpecDriver.         *)
(***************************************************************************)
MaxAnyVolume == 3

IngestVolumes(n) ==
    IF n < MaxAnyVolume THEN {Undefined, 2, -3} ELSE {FeedVolume(n)}

IngestTick ==
    \E v \in IngestVolumes(Len(arrived)) :
        Message(wsRef, Msg("trade", FeedPrice(Len(arrived)), v), FALSE,
                MaxDriverTicks)

NextIngest == IngestTick \/ TimePasses \/ IntervalFire \/ SimIter \/ SimEnd

SpecIngest == InitFeed /\ [][NextIngest]_vars

(***************************************************************************)
(* The cumulative profit series, recomputed from logs at every render.     *)
(***************************************************************************)
\* x || 0
OrZero(x) == IF Truthy(x) THEN x ELSE Num(0)

\* logs.filter((d) => d.type === "SELL")
IsSell(d) == d.type = "SELL"

Sells(ls) == SelectSeq(ls, IsSell)

RECURSIVE Reduce_NoCarry(_, _, _)
Reduce_NoCarry(s, acc, k) ==
    IF k = Len(s) THEN acc
    ELSE Reduce_NoCarry(s, Append(acc, OrZero(s[k + 1].profit)), k + 1)

\* .reduce((acc, cur, i) => { acc.push((acc[i - 1] || 0) + (cur.profit || 0));
\* return acc; }, []) from the element of index k (0-based) on.
RECURSIVE Reduce(_, _, _)
Reduce(s, acc, k) ==
    IF k = Len(s) THEN acc
    ELSE Reduce(s,
                Append(acc, Add(OrZero(IF k = 0 THEN Null ELSE acc[k]),
                                OrZero(s[k + 1].profit))),
                k + 1)

cumulative == Reduce(Sells(logs), <<>>, 0)

(***************************************************************************)
(* SpecCalc: calculate_net_profit applied to entry and exit prices drawn   *)
(* from bounded sets: exits around the entry, around the exit at which the *)
(* return after commission changes sign, and far from both.  calc keeps    *)
(* the application before the last when it had the same entry.             *)
(***************************************************************************)
Entries == {Num(1), Num(50), Num(100), Num(200)}

ExitCents ==
    {0, 50, 100, 101, 5000, 5023, 5024, 9900, 10000, 10046, 10047, 10070,
     10096, 10097, 10100, 20000}

Exits == {Div(c, 100) : c \in ExitCents}

Apply(en, ex) ==
    /\ calc' = [entry |-> en, exit |-> ex, out |-> NetProfit(en, ex),
                prevExit |-> IF calc.entry = en THEN calc.exit ELSE Null,
                prevOut |-> IF calc.entry = en THEN calc.out ELSE Null]
    /\ UNCHANGED <<compVars, simVars, hookVars, drvVars>>

NextCalc == \E en \in Entries, ex \in Exits : Apply(en, ex)

SpecCalc == Init /\ [][NextCalc]_vars

(***************************************************************************)
(* SpecManual: the variant of the component whose buffers are typed in.    *)
(* It has no hook: the hook's variables rest at their initial values.  The *)
(* text of an input is a list of up to MaxFields comma-separated fields.   *)
(***************************************************************************)
MaxFields == 3

Fields == {"", "5", "12"}

\* Number(field)
ToNumber(f) == CASE f = "" -> 0 [] f = "5" -> 5 [] f = "12" -> 12

\* e.target.value.split(",").map(Number)
Parse(text) == [k \in 1..Len(text) |-> ToNumber(text[k])]

Texts == SeqsUpTo(Fields, MaxFields) \ {<<>>}

\* onChange of the price input: setPrices(...)
ManualPrices(text) ==
    /\ prices' = Parse(text)
    /\ UNCHANGED <<volumes, logs, simVars, hookVars, drvVars, calc>>

\* onChange of the volume input: setVolumes(...)
ManualVolumes(text) ==
    /\ volumes' = Parse(text)
    /\ UNCHANGED <<prices, logs, simVars, hookVars, drvVars, calc>>

NextManual ==
    \/ \E text \in Texts : ManualPrices(text)
    \/ \E text \in Texts : ManualVolumes(text)

SpecManual == Init /\ [][NextManual]_vars

(***************************************************************************)
(* Properties of the buffers                                               *)
(***************************************************************************)
\* C5: after any sequence of tick appends the buffers hold at most 100
\* samples, and they are exactly the most recent min(n, 100) of the n ticks
\* appended, in arrival order; after 150 appends the length is 100 and the
\* oldest retained tick is input number 50 (counting from 0).
C5_BufferFifo ==
    LET n == Len(arrived)
        m == IF n < 100 THEN n ELSE 100
    IN  /\ Len(prices) = m
        /\ Len(volumes) = m
        /\ \A k \in 1..m : /\ prices[k] = arrived[n - m + k][1]
                           /\ volumes[k] = arrived[n - m + k][2]
        /\ n = 150 => Len(prices) = 100 /\ prices[1] = FeedPrice(50)

C5_Witness ==
    /\ Len(arrived) = 150
    /\ Len(prices) = 100
    /\ prices[1] = FeedPrice(50)
    /\ prices[100] = FeedPrice(149)

\* C6: in every reachable state the price buffer and the volume buffer have
\* the same length.
C6_BuffersPaired == Len(prices) = Len(volumes)

(***************************************************************************)
(* Properties of the connection                                            *)
(***************************************************************************)
BackoffTable(k) ==
    CASE k = 0 -> 1000
      [] k = 1 -> 2000
      [] k = 2 -> 4000
      [] k = 3 -> 8000
      [] k = 4 -> 16000
      [] OTHER -> 30000

\* C7: a reconnect is scheduled with delay min(30 s, 1 s * 2^retryCount),
\* that is 1, 2, 4, 8, 16, 30, 30, ... seconds; retryCount goes up by exactly
\* one when a scheduled reconnect takes place, is reset to 0 when a socket
\* opens, and changes in no other step.
C7_Backoff ==
    [][ /\ ev'.type = "timer" => retryCount' = retryCount + 1
        /\ ev'.type = "open" => retryCount' = 0
        /\ ev'.type \notin {"timer", "open"} => retryCount' = retryCount
        /\ \A k \in 1..Len(timers') :
               timers'[k].delay = BackoffTable(retryCount') ]_vars

C7_Witness ==
    /\ retryCount = 6
    /\ Len(timers) = 1
    /\ timers[1].delay = 30000

\* C8: under every interleaving of socket events, timer expiry and teardown,
\* no timer of a torn-down session stays pending, and every socket that is
\* connecting or open (so every subscription sent) belongs to the session of
\* the current key and instrument.
C8_TeardownRaceFree ==
    /\ \A k \in 1..Len(timers) : timers[k].mounted
    /\ \A w \in 1..MaxSockets :
           socks[w].st \in {"CONNECTING", "OPEN"} =>
               /\ socks[w].mounted
               /\ live
               /\ w = wsRef
               /\ socks[w].key = apiKey
               /\ socks[w].sym = symbol

\* The close event of an abandoned session's socket arrives after the key
\* was cleared, in a hook that had been through a reconnect.
C8_Witness ==
    /\ ev.type = "close"
    /\ apiKey = ""
    /\ ~live
    /\ retryCount > 0
    /\ timers = <<>>

\* C9: while no key is configured the status is Idle.
C9_IdleWithoutKey == apiKey = "" => status = STATUS_IDLE

WellFormedTrade(m) == m.kind = "trade" /\ m.p # Undefined

\* C10: a message that is not a well-formed trade is ignored: the buffers,
\* the status and the log are unchanged and no error escapes the handler.
C10_MalformedIgnored ==
    [][ (ev'.type = "message" /\ ~WellFormedTrade(ev'.msg)) =>
            /\ ~ev'.threw
            /\ UNCHANGED <<prices, volumes, status, logs>> ]_vars

\* The session in force has lost its connection: none of its sockets is
\* connecting or open.
Failed ==
    /\ alive
    /\ live
    /\ apiKey # ""
    /\ \A w \in 1..MaxSockets :
           socks[w].mounted => socks[w].st \notin {"CONNECTING", "OPEN"}

Reconnecting ==
    /\ status = STATUS_CONNECTING
    /\ \E w \in 1..MaxSockets : socks[w].mounted /\ socks[w].st = "CONNECTING"

\* C11: after an error or a close, while a key is configured, the hook is
\* eventually connecting again (or has been torn down), however many
\* failures came before (up to the MaxRetry reconnects the model follows).
C11_AlwaysReconnects ==
    (Failed /\ retryCount < MaxRetry) ~> (Reconnecting \/ ~live)

\* The fourth reconnect in a row has just started.
C11_Witness ==
    /\ ev.type = "timer"
    /\ Reconnecting
    /\ retryCount = 4

(***************************************************************************)
(* Properties of the periodic driver (SpecDriver)                          *)
(***************************************************************************)
\* C12: once a key is configured and the buffer holds 20 samples, a pass
\* starts within one interval, and again within one interval of the last
\* pass, however often ticks arrive.
C12_DriverOnTime == DriverOn(apiKey, prices) => waited <= IntervalMs

\* C13: a pass started by the interval observes a buffer of at least 20
\* samples, and an interval is set only over such a buffer.
C13_PassNeedsTwenty ==
    /\ simPc = "loop" => Len(prices) >= 20
    /\ ivLeft # Off => Len(prices) >= 20 /\ apiKey # ""

\* A pass over a buffer of exactly 20 samples has finished its loop.
C13_Witness ==
    /\ simPc = "loop"
    /\ Len(prices) = 20
    /\ i = 20

\* C14: while a pass is in progress no other pass starts and the buffers it
\* reads do not change.
C14_OnePassOneSnapshot ==
    [][ simPc = "loop" =>
            /\ UNCHANGED <<prices, volumes>>
            /\ ~(simPc' = "loop" /\ i' = 0) ]_vars

\* A pass is half way through a buffer that took a tick after the driver
\* was set.
C14_Witness ==
    /\ simPc = "loop"
    /\ Len(prices) = 21
    /\ i = 10

(***************************************************************************)
(* Properties of a pass as a whole (SpecSim)                               *)
(***************************************************************************)
\* The log a replay of the buffer from index k on produces, given the
\* position (h: holding, en: entry price, eIdx: entry index) at k.
RECURSIVE ReplayFrom(_, _, _, _, _, _)
ReplayFrom(ps, vs, k, h, en, eIdx) ==
    IF k >= Len(ps) THEN <<>>
    ELSE LET p   == At(ps, k)
             rs  == ReasonsAt(ps, vs, k)
             net == calculate_net_profit(en, p)
         IN  IF ~h /\ Len(rs) = 4
             THEN <<[time |-> k, type |-> "BUY", price |-> p, reason |-> rs]>>
                  \o ReplayFrom(ps, vs, k + 1, TRUE, p, k)
             ELSE IF h /\ (Ge(net, <<7, 10>>) \/ Le(net, <<-1, 2>>) \/ k - eIdx >= 90)
             THEN <<[time |-> k, type |-> "SELL", price |-> p, profit |-> net]>>
                  \o ReplayFrom(ps, vs, k + 1, FALSE, en, eIdx)
             ELSE ReplayFrom(ps, vs, k + 1, h, en, eIdx)

\* C15: the log a pass leaves is the replay of the current buffers from a
\* flat position, whatever the log held before: it replaces the previous
\* log, and a second pass over the same buffers leaves the same log.
C15_IdempotentReplay ==
    [][ (simPc = "loop" /\ simPc' = "idle") =>
            logs' = ReplayFrom(prices, volumes, 0, FALSE, 0, 0) ]_vars

\* A second pass over buffers whose first pass left events has finished its
\* loop with the same events.
C15_Witness ==
    /\ simPc = "loop"
    /\ i = Len(prices)
    /\ logs # <<>>
    /\ newLogs = logs

(***************************************************************************)
(* Properties of the stored volumes (Spec)                                 *)
(***************************************************************************)
\* C16: every volume in the buffer is strictly positive, whatever trade
\* messages arrive.
C16_VolumesPositive == \A k \in 1..Len(volumes) : volumes[k] > 0

(***************************************************************************)
(* Properties of calculate_net_profit (SpecCalc)                           *)
(***************************************************************************)
\* The computation in the order of the contract: the gross return, less the
\* round-trip commission 2 * 0.0023, times 1 - 0.22 only when what is left
\* is positive, times 100.
Reference(en, ex) ==
    LET gross == Quot(Sub(ex, en), en)
        post  == Sub(gross, <<46, 10000>>)
        taxed == IF Gt(post, <<0, 1>>) THEN Mul(post, <<78, 100>>) ELSE post
    IN  Mul(taxed, <<100, 1>>)

\* C17: for every entry > 0 and every exit, the net profit is the reference
\* computation.
C17_NetProfitIsReference ==
    calc.out # Null => calc.out = Reference(calc.entry, calc.exit)

\* A taxed result and an untaxed one: entry 100, exit 101 and exit 99.
C17_Witness ==
    /\ calc.entry = <<100, 1>>
    /\ calc.exit = <<101, 1>>
    /\ Gt(calc.out, <<0, 1>>)
    /\ calc.prevExit = <<99, 1>>
    /\ Lt(calc.prevOut, <<0, 1>>)

IsExample == calc.entry = <<100, 1>> /\ calc.exit = <<1007, 10>>

\* C18 as stated: for entry 100 and exit 100.7 the return after commission
\* is 0.0025 and the net profit 0.195 %.
C18_ExampleAsStated ==
    IsExample =>
        /\ PostCommission(calc.entry, calc.exit) = <<25, 10000>>
        /\ calc.out = <<195, 1000>>

\* C18 amended: for entry 100 and exit 100.7 the return after commission is
\* 0.007 - 0.0046 = 0.0024 and the net profit 0.0024 * 0.78 * 100 = 0.1872 %.
C18_Example ==
    IsExample =>
        /\ PostCommission(calc.entry, calc.exit) = <<3, 1250>>
        /\ calc.out = <<117, 625>>

C18_Witness == IsExample /\ calc.out # Null

\* x < y for rationals with positive denominators, comparing whole parts
\* first and the fractional parts only when those are equal.
Below(x, y) ==
    \/ x[1] \div x[2] < y[1] \div y[2]
    \/ /\ x[1] \div x[2] = y[1] \div y[2]
       /\ (x[1] % x[2]) * y[2] < (y[1] % y[2]) * x[2]

\* C19: for a fixed entry > 0 the net profit is strictly increasing in the
\* exit price.
C19_StrictlyIncreasing ==
    calc.prevOut # Null =>
        /\ Below(calc.prevExit, calc.exit) => Below(calc.prevOut, calc.out)
        /\ Below(calc.exit, calc.prevExit) => Below(calc.out, calc.prevOut)

\* Two exits on either side of the point where tax starts to apply: entry
\* 100, exit 100.46 (nothing left after commission) and exit 100.47.
C19_Witness ==
    /\ calc.entry = <<100, 1>>
    /\ calc.prevExit = <<5023, 50>>
    /\ calc.prevOut = <<0, 1>>
    /\ calc.exit = <<10047, 100>>
    /\ Gt(calc.out, <<0, 1>>)

(***************************************************************************)
(* Properties of the cumulative series (SpecSim)                           *)
(***************************************************************************)
\* Positions of the SELL events in the log, up to position j.
SellsUpTo(j) == {m \in 1..j : logs[m].type = "SELL"}

RECURSIVE SumProfit(_)
SumProfit(S) ==
    IF S = {} THEN <<0, 1>>
    ELSE LET m == CHOOSE m \in S : TRUE
         IN  Add(logs[m].profit, SumProfit(S \ {m}))

\* C20: the cumulative series has one entry per SELL event of the log, in
\* log order, and its k-th entry is the sum of the profits of the first k
\* SELL events; BUY events add neither an entry nor an amount.
C20_CumulativeIsRunningSum ==
    /\ Len(cumulative) = Cardinality(SellsUpTo(Len(logs)))
    /\ \A j \in SellsUpTo(Len(logs)) :
          cumulative[Cardinality(SellsUpTo(j))] = SumProfit(SellsUpTo(j))

\* A log with two round trips whose first SELL made or lost something.
C20_Witness ==
    /\ Len(logs) = 4
    /\ Len(cumulative) = 2
    /\ logs[2].profit # <<0, 1>>
    /\ cumulative[1] = logs[2].profit
    /\ cumulative[2] = Add(logs[2].profit, logs[4].profit)

(***************************************************************************)
(* Properties of the hook under its caller (Spec)                          *)
(***************************************************************************)
\* The step hands a tick with a price to onTrade.
ValidTick ==
    /\ ev'.type = "message"
    /\ WellFormedTrade(ev'.msg)
    /\ Len(arrived') = Len(arrived) + 1

\* The step runs the cleanup of the session in force: a socket whose
\* session was in force is still there and its session is over.
Teardown ==
    \E w \in 1..MaxSockets :
        socks[w].mounted /\ socks'[w].st # "NONE" /\ ~socks'[w].mounted

\* The consumer changed the key or the instrument, or went away.
ConsumerMoved == apiKey' # apiKey \/ symbol' # symbol \/ alive' # alive

\* C21: a valid tick only appends to the buffers: the socket in force, the
\* state of every socket, the status, the retry count and the pending
\* timers are as before; and a session is torn down only in a step in which
\* the key or the instrument changes or the consumer goes away.
C21_TickOnlyAppends ==
    [][ /\ ValidTick => UNCHANGED <<wsRef, socks, status, retryCount, timers>>
        /\ Teardown => ConsumerMoved ]_vars

(***************************************************************************)
(* Properties of a pass over ingested buffers (SpecIngest)                 *)
(***************************************************************************)
\* C22: no pass divides by zero: at every iteration that computes VWAP (a
\* prefix of two samples or more) the volumes of the prefix do not sum to
\* zero, and at every iteration that computes the net profit (a position is
\* held) the entry price is not zero.
C22_NoDivisionByZero ==
    (simPc = "loop" /\ i < Len(prices)) =>
        /\ (i + 1 >= 2 /\ Len(volumes) = Len(prices)) =>
               Sum(SliceTo(volumes, i + 1)) # 0
        /\ holding => entry # 0

(***************************************************************************)
(* Properties of a pass on short history (SpecSim)                         *)
(***************************************************************************)
BuyTimes(ls) == {ls[k].time : k \in {j \in 1..Len(ls) : ls[j].type = "BUY"}}

\* C23: no BUY is emitted at an index below 26: on a prefix of fewer than 26
\* samples MACD is absent, on a prefix of exactly 26 the MACD line and the
\* signal are equal; so the log of a buffer of at most 26 samples is empty.
C23_NoEarlyBuy ==
    /\ \A t \in BuyTimes(newLogs) \cup BuyTimes(logs) : t >= 26
    /\ Len(prices) <= 26 => (newLogs = <<>> /\ logs = <<>>)
    /\ (simPc = "loop" /\ i < Len(prices)) =>
          LET m == calculate_macd(SliceTo(prices, i + 1))
          IN  /\ i + 1 < 26 => m = <<Null, Null>>
              /\ i + 1 = 26 => (m[1] # Null /\ m[1] = m[2])

\* A buffer of 26 samples whose last index satisfies every condition but
\* that of MACD: the pass has gone over it and emitted nothing.
C23_Witness ==
    /\ simPc = "loop"
    /\ i = 26
    /\ Len(prices) = 26
    /\ reasons = <<"RSI<30", "VWAP breakout", "golden cross">>
    /\ newLogs = <<>>

=============================================================================
